---- MODULE Spec2Model ----
(***************************************************************************)
(* ESP32 BLE LED controller (firmware/ESP32_BLE_Blink/src/main.cpp).       *)
(*                                                                         *)
(* Two execution contexts share the globals of main.cpp:                   *)
(*   - the BLE stack's task, which runs the callbacks onConnect,           *)
(*     onDisconnect and onWrite one at a time, and                         *)
(*   - the Arduino loop task, which runs loop() forever.                   *)
(* Each context is modelled statement by statement (a program counter      *)
(* named after the source line about to execute), so that a callback can   *)
(* run between any two statements of loop().                               *)
(***************************************************************************)
EXTENDS Integers, Sequences, FiniteSets, TLC

(* ------------------------------ bounds -------------------------------- *)

\* writes delivered in the LED-only specification
MaxCmds == 4
\* writes delivered in the specification that interleaves everything
MaxWrites == 2
\* connection events (on-connect + on-disconnect) delivered
MaxEvents == 4
\* the counters of advertising requests and of polls saturate here
CountCap == 3

(* ----------------------------- vocabulary ----------------------------- *)

\* payloads a client may write: the four commands, the empty payload, and
\* near misses (case variant, trailing character, prefix)
Payloads == {"", "ON", "OFF", "TOGGLE", "STATUS", "on", "ON ", "TOGG"}

\* the payloads written where writes interleave with connection events and
\* loop(): the four commands, the empty payload and one near miss
InterleavedPayloads == {"", "ON", "OFF", "TOGGLE", "STATUS", "on"}

\* stands for "no write has arrived yet" (not a payload)
NoWrite == "<none>"

HIGH == "HIGH"
LOW == "LOW"

VARIABLES
  \* ---- program state
  deviceConnected,     \* main.cpp:17
  oldDeviceConnected,  \* main.cpp:18
  ledState,            \* main.cpp:21
  pin,                 \* output level of LED_PIN
  charValue,           \* value stored in the characteristic
  rxValue,             \* local of onWrite
  advertising,         \* whether the stack is advertising
  wpc,                 \* position of the BLE task inside onWrite ("idle" outside)
  lpc,                 \* position of the loop task inside loop()
  \* ---- observations (never read by the program)
  notifications,       \* payloads passed to the client by notify(), in order
  history,             \* payloads whose onWrite has returned, in order
  snap,                \* the running/last write: its payload, and ledState, pin,
                       \* #notifications as they were when it arrived
  ledSetAt,            \* #connection events delivered when onWrite last assigned ledState
  iterLog,             \* steps of the disconnect branch taken by the current loop() iteration
  advSinceEvent,       \* advertising requests by loop() since the last connection event
  pollsSinceEvent,     \* evaluations of line 115 since the last connection event
  connSeen,            \* loop() has read deviceConnected = TRUE since the last on-connect
  obsDisc,             \* last event: a disconnect of a connection loop() had seen and recorded
  pendingDisc,         \* a disconnect has been delivered and no advertising request followed yet
  lastEvent,           \* kind of the last connection event, and whether the one before
                       \* it was of the same kind
  nEvents              \* connection events delivered so far

ledVars == <<ledState, pin, charValue, rxValue, wpc, notifications, history, snap, ledSetAt>>
connVars == <<deviceConnected, oldDeviceConnected, advertising, lpc, iterLog,
              advSinceEvent, pollsSinceEvent, connSeen, obsDisc, pendingDisc,
              lastEvent, nEvents>>
vars == <<ledVars, connVars>>

Bump(n) == IF n < CountCap THEN n + 1 ELSE n

(* ------------------------------ setup() ------------------------------- *)

Init ==
  /\ deviceConnected = FALSE
  /\ oldDeviceConnected = FALSE
  /\ ledState = FALSE
  /\ pin = LOW
  /\ charValue = "Hello World"
  /\ rxValue = ""
  /\ advertising = TRUE
  /\ wpc = "idle"
  /\ lpc = "l115"
  /\ notifications = <<>>
  /\ history = <<>>
  /\ snap = [payload |-> NoWrite, led |-> FALSE, pin |-> LOW, n |-> 0]
  /\ ledSetAt = 0
  /\ iterLog = <<>>
  /\ advSinceEvent = 0
  /\ pollsSinceEvent = 0
  /\ connSeen = FALSE
  /\ obsDisc = FALSE
  /\ pendingDisc = FALSE
  /\ lastEvent = [kind |-> "none", repeated |-> FALSE]
  /\ nEvents = 0

(* --------------------- MyCallbacks::onWrite --------------------------- *)

\* std::string operator== (lines 47, 52, 57, 62): exact equality
MatchesLoose(rx, cmd) == rx = cmd \/ (cmd = "ON" /\ rx \in {"on", "ON "}) \/ (cmd = "TOGGLE" /\ rx = "TOGG")
Matches(rx, cmd) == rx = cmd

\* ledState ? HIGH : LOW (line 59)
LevelInverted(b) == IF b THEN LOW ELSE HIGH
Level(b) == IF b THEN HIGH ELSE LOW

\* ledState ? "LED_ON" : "LED_OFF" (line 64)
StatusStringSwapped(b) == IF b THEN "LED_OFF" ELSE "LED_ON"
StatusString(b) == IF b THEN "LED_ON" ELSE "LED_OFF"

\* the if / else-if chain of lines 39..62: the line executed next, "idle"
\* when the handler returns without doing anything
DispatchNoGuardFinalElse(rx) ==
  IF Matches(rx, "ON") THEN "l48"
  ELSE IF Matches(rx, "OFF") THEN "l53"
  ELSE IF Matches(rx, "TOGGLE") THEN "l58"
  ELSE "l64"
Dispatch(rx) ==
  IF Len(rx) > 0
  THEN IF Matches(rx, "ON") THEN "l48"
       ELSE IF Matches(rx, "OFF") THEN "l53"
       ELSE IF Matches(rx, "TOGGLE") THEN "l58"
       ELSE IF Matches(rx, "STATUS") THEN "l64"
       ELSE "idle"
  ELSE "idle"

\* onWrite returns: the BLE task is free again and the write is on record
Return ==
  /\ wpc' = "idle"
  /\ history' = Append(history, snap.payload)

\* A client writes payload p: the stack stores p as the characteristic's
\* value and calls onWrite, whose line 37 reads the command back from it.
GattWrite(limit, payloads) ==
  \E p \in payloads :
    /\ wpc = "idle"
    /\ Len(history) < limit
    /\ charValue' = p
    /\ wpc' = "l37"
    /\ snap' = [payload |-> p, led |-> ledState, pin |-> pin, n |-> Len(notifications)]
    /\ UNCHANGED <<ledState, pin, rxValue, notifications, history, ledSetAt, connVars>>

\* line 37: rxValue = pCharacteristic->getValue()
OnWrite37 ==
  /\ wpc = "l37"
  /\ rxValue' = charValue
  /\ wpc' = "l39"
  /\ UNCHANGED <<ledState, pin, charValue, notifications, history, snap, ledSetAt, connVars>>

\* lines 39..62: length test and command comparison
OnWrite39 ==
  /\ wpc = "l39"
  /\ IF Dispatch(rxValue) = "idle"
     THEN Return
     ELSE wpc' = Dispatch(rxValue) /\ UNCHANGED history
  /\ UNCHANGED <<ledState, pin, charValue, rxValue, notifications, snap, ledSetAt, connVars>>

\* line 48: digitalWrite(LED_PIN, HIGH)
OnWriteOn48 ==
  /\ wpc = "l48"
  /\ pin' = HIGH
  /\ wpc' = "l49"
  /\ UNCHANGED <<ledState, charValue, rxValue, notifications, history, snap, ledSetAt, connVars>>

\* line 49: ledState = true
OnWriteOn49Notifying ==
  /\ wpc = "l49"
  /\ ledState' = TRUE
  /\ ledSetAt' = nEvents
  /\ notifications' = Append(notifications, charValue)
  /\ Return
  /\ UNCHANGED <<pin, charValue, rxValue, snap, connVars>>
OnWriteOn49 ==
  /\ wpc = "l49"
  /\ ledState' = TRUE
  /\ ledSetAt' = nEvents
  /\ Return
  /\ UNCHANGED <<pin, charValue, rxValue, notifications, snap, connVars>>

\* line 53: digitalWrite(LED_PIN, LOW)
OnWriteOff53 ==
  /\ wpc = "l53"
  /\ pin' = LOW
  /\ wpc' = "l54"
  /\ UNCHANGED <<ledState, charValue, rxValue, notifications, history, snap, ledSetAt, connVars>>

\* line 54: ledState = false
OnWriteOff54 ==
  /\ wpc = "l54"
  /\ ledState' = FALSE
  /\ ledSetAt' = nEvents
  /\ Return
  /\ UNCHANGED <<pin, charValue, rxValue, notifications, snap, connVars>>

\* line 58: ledState = !ledState
OnWriteToggle58SetsTrue ==
  /\ wpc = "l58"
  /\ ledState' = TRUE
  /\ ledSetAt' = nEvents
  /\ wpc' = "l59"
  /\ UNCHANGED <<pin, charValue, rxValue, notifications, history, snap, connVars>>
OnWriteToggle58 ==
  /\ wpc = "l58"
  /\ ledState' = ~ledState
  /\ ledSetAt' = nEvents
  /\ wpc' = "l59"
  /\ UNCHANGED <<pin, charValue, rxValue, notifications, history, snap, connVars>>

\* line 59: digitalWrite(LED_PIN, ledState ? HIGH : LOW)
OnWriteToggle59 ==
  /\ wpc = "l59"
  /\ pin' = Level(ledState)
  /\ Return
  /\ UNCHANGED <<ledState, charValue, rxValue, notifications, snap, ledSetAt, connVars>>

\* lines 64-65: status = ledState ? ... ; pCharacteristic->setValue(status)
OnWriteStatus65NoStore ==
  /\ wpc = "l64"
  /\ wpc' = "l66"
  /\ UNCHANGED <<charValue, ledState, pin, rxValue, notifications, history, snap, ledSetAt, connVars>>
OnWriteStatus65 ==
  /\ wpc = "l64"
  /\ charValue' = StatusString(ledState)
  /\ wpc' = "l66"
  /\ UNCHANGED <<ledState, pin, rxValue, notifications, history, snap, ledSetAt, connVars>>

\* line 66: pCharacteristic->notify() sends the characteristic's value
OnWriteStatus66SendsStale ==
  /\ wpc = "l66"
  /\ notifications' = Append(notifications, rxValue)
  /\ Return
  /\ UNCHANGED <<ledState, pin, charValue, rxValue, snap, ledSetAt, connVars>>
OnWriteStatus66 ==
  /\ wpc = "l66"
  /\ notifications' = Append(notifications, charValue)
  /\ Return
  /\ UNCHANGED <<ledState, pin, charValue, rxValue, snap, ledSetAt, connVars>>

OnWriteStep ==
  \/ OnWrite37
  \/ OnWrite39
  \/ OnWriteOn48
  \/ OnWriteOn49
  \/ OnWriteOff53
  \/ OnWriteOff54
  \/ OnWriteToggle58
  \/ OnWriteToggle59
  \/ OnWriteStatus65
  \/ OnWriteStatus66

(* ------------------------ MyServerCallbacks --------------------------- *)

\* Both callbacks run on the BLE task, so never while onWrite is running.
\* The stack stops advertising when a client connects.

\* lines 24-27
OnConnectResetsLed ==
  /\ wpc = "idle"
  /\ nEvents < MaxEvents
  /\ deviceConnected' = TRUE
  /\ advertising' = FALSE
  /\ nEvents' = nEvents + 1
  /\ connSeen' = FALSE
  /\ obsDisc' = FALSE
  /\ advSinceEvent' = 0
  /\ pollsSinceEvent' = 0
  /\ lastEvent' = [kind |-> "connect", repeated |-> lastEvent.kind = "connect"]
  /\ ledState' = FALSE
  /\ pin' = LOW
  /\ UNCHANGED <<oldDeviceConnected, lpc, iterLog, pendingDisc, charValue, rxValue, wpc,
                 notifications, history, snap, ledSetAt>>
OnConnect ==
  /\ wpc = "idle"
  /\ nEvents < MaxEvents
  /\ deviceConnected' = TRUE
  /\ advertising' = FALSE
  /\ nEvents' = nEvents + 1
  /\ connSeen' = FALSE
  /\ obsDisc' = FALSE
  /\ advSinceEvent' = 0
  /\ pollsSinceEvent' = 0
  /\ lastEvent' = [kind |-> "connect", repeated |-> lastEvent.kind = "connect"]
  /\ UNCHANGED <<oldDeviceConnected, lpc, iterLog, pendingDisc, ledVars>>

\* lines 29-32
OnDisconnectClearsOld ==
  /\ wpc = "idle"
  /\ nEvents < MaxEvents
  /\ deviceConnected' = FALSE
  /\ oldDeviceConnected' = FALSE
  /\ nEvents' = nEvents + 1
  /\ obsDisc' = (deviceConnected /\ oldDeviceConnected /\ connSeen)
  /\ pendingDisc' = TRUE
  /\ advSinceEvent' = 0
  /\ pollsSinceEvent' = 0
  /\ lastEvent' = [kind |-> "disconnect", repeated |-> lastEvent.kind = "disconnect"]
  /\ UNCHANGED <<advertising, lpc, iterLog, connSeen, ledVars>>
OnDisconnect ==
  /\ wpc = "idle"
  /\ nEvents < MaxEvents
  /\ deviceConnected' = FALSE
  /\ nEvents' = nEvents + 1
  /\ obsDisc' = (deviceConnected /\ oldDeviceConnected /\ connSeen)
  /\ pendingDisc' = TRUE
  /\ advSinceEvent' = 0
  /\ pollsSinceEvent' = 0
  /\ lastEvent' = [kind |-> "disconnect", repeated |-> lastEvent.kind = "disconnect"]
  /\ UNCHANGED <<oldDeviceConnected, advertising, lpc, iterLog, connSeen, ledVars>>

(* ------------------------------ loop() -------------------------------- *)

\* line 115: !deviceConnected && oldDeviceConnected
DisconnectSeenIgnoresOld == ~deviceConnected
DisconnectSeen == ~deviceConnected /\ oldDeviceConnected

\* line 123: deviceConnected && !oldDeviceConnected
ConnectSeen == deviceConnected /\ ~oldDeviceConnected

\* line 115: the test that opens an iteration
AfterTest115NoDelay == IF DisconnectSeen THEN "l117" ELSE "l123"
AfterTest115 == IF DisconnectSeen THEN "l116" ELSE "l123"

LoopTest115 ==
  /\ lpc = "l115"
  /\ lpc' = AfterTest115
  /\ iterLog' = IF ~deviceConnected /\ oldDeviceConnected THEN <<"observe">> ELSE <<>>
  /\ pollsSinceEvent' = Bump(pollsSinceEvent)
  /\ connSeen' = (connSeen \/ deviceConnected)
  /\ UNCHANGED <<deviceConnected, oldDeviceConnected, advertising, advSinceEvent,
                 obsDisc, pendingDisc, nEvents, lastEvent, ledVars>>

\* line 116: delay(500)
LoopDelay116 ==
  /\ lpc = "l116"
  /\ lpc' = "l117"
  /\ iterLog' = Append(iterLog, "delay500")
  /\ UNCHANGED <<deviceConnected, oldDeviceConnected, advertising, advSinceEvent,
                 pollsSinceEvent, connSeen, obsDisc, pendingDisc, nEvents, lastEvent, ledVars>>

\* line 117: pServer->startAdvertising()
LoopAdvertise117 ==
  /\ lpc = "l117"
  /\ lpc' = "l119"
  /\ advertising' = TRUE
  /\ advSinceEvent' = Bump(advSinceEvent)
  /\ pendingDisc' = FALSE
  /\ iterLog' = Append(iterLog, "advertise")
  /\ UNCHANGED <<deviceConnected, oldDeviceConnected, pollsSinceEvent, connSeen,
                 obsDisc, nEvents, lastEvent, ledVars>>

\* line 119: oldDeviceConnected = deviceConnected
LoopSync119Skipped ==
  /\ lpc = "l119"
  /\ lpc' = "l123"
  /\ iterLog' = Append(iterLog, "sync")
  /\ UNCHANGED <<deviceConnected, oldDeviceConnected, advertising, advSinceEvent, connSeen,
                 pollsSinceEvent, obsDisc, pendingDisc, nEvents, lastEvent, ledVars>>
LoopSync119 ==
  /\ lpc = "l119"
  /\ lpc' = "l123"
  /\ oldDeviceConnected' = deviceConnected
  /\ connSeen' = (connSeen \/ deviceConnected)
  /\ iterLog' = Append(iterLog, "sync")
  /\ UNCHANGED <<deviceConnected, advertising, advSinceEvent, pollsSinceEvent,
                 obsDisc, pendingDisc, nEvents, lastEvent, ledVars>>

\* line 123: the connect test
LoopTest123 ==
  /\ lpc = "l123"
  /\ lpc' = IF ConnectSeen THEN "l125" ELSE "l128"
  /\ connSeen' = (connSeen \/ deviceConnected)
  /\ UNCHANGED <<deviceConnected, oldDeviceConnected, advertising, iterLog, advSinceEvent,
                 pollsSinceEvent, obsDisc, pendingDisc, nEvents, lastEvent, ledVars>>

\* line 125: oldDeviceConnected = deviceConnected
LoopSync125Skipped ==
  /\ lpc = "l125"
  /\ lpc' = "l128"
  /\ connSeen' = (connSeen \/ deviceConnected)
  /\ UNCHANGED <<deviceConnected, oldDeviceConnected, advertising, iterLog, advSinceEvent,
                 pollsSinceEvent, obsDisc, pendingDisc, nEvents, lastEvent, ledVars>>
LoopSync125 ==
  /\ lpc = "l125"
  /\ lpc' = "l128"
  /\ oldDeviceConnected' = deviceConnected
  /\ connSeen' = (connSeen \/ deviceConnected)
  /\ UNCHANGED <<deviceConnected, advertising, iterLog, advSinceEvent, pollsSinceEvent,
                 obsDisc, pendingDisc, nEvents, lastEvent, ledVars>>

\* line 128: delay(10), then loop() is called again
LoopDelay128 ==
  /\ lpc = "l128"
  /\ lpc' = "l115"
  /\ UNCHANGED <<deviceConnected, oldDeviceConnected, advertising, iterLog, advSinceEvent,
                 pollsSinceEvent, connSeen, obsDisc, pendingDisc, nEvents, lastEvent, ledVars>>

LoopStep ==
  \/ LoopTest115
  \/ LoopDelay116
  \/ LoopAdvertise117
  \/ LoopSync119
  \/ LoopTest123
  \/ LoopSync125
  \/ LoopDelay128

(* --------------------------- specifications --------------------------- *)

\* the write path alone
LedNext ==
  \/ GattWrite(MaxCmds, Payloads)
  \/ OnWriteStep

LedSpec == Init /\ [][LedNext]_vars

\* connection events and loop() alone
ConnNext ==
  \/ OnConnect
  \/ OnDisconnect
  \/ LoopStep

ConnSpec == Init /\ [][ConnNext]_vars

\* everything interleaved
Next ==
  \/ GattWrite(MaxWrites, InterleavedPayloads)
  \/ OnWriteStep
  \/ OnConnect
  \/ OnDisconnect
  \/ LoopStep

Spec == Init /\ [][Next]_vars

\* the platform's view of the link: a client can connect only while the
\* device advertises and is not connected, and only a connected client
\* disconnects
ClientConnects == advertising /\ ~deviceConnected /\ OnConnect

ClientDisconnects == deviceConnected /\ OnDisconnect

FairNext ==
  \/ ClientConnects
  \/ ClientDisconnects
  \/ LoopStep

\* loop() is called again and again by the Arduino core and none of its
\* statements blocks for ever: every step of it is eventually taken.
\* Nothing obliges a client to connect or disconnect.
FairSpec == Init /\ [][FairNext]_vars /\ WF_vars(LoopStep)

\* connection events in any order, with loop() always running
FairConnSpec == Init /\ [][ConnNext]_vars /\ WF_vars(LoopStep)

(* ------------------------------- claims ------------------------------- *)

Last(seq) == seq[Len(seq)]

\* the meaning of one command on the logical LED state
Apply(c, s) ==
  CASE c = "ON" -> TRUE
    [] c = "OFF" -> FALSE
    [] c = "TOGGLE" -> ~s
    [] OTHER -> s

RECURSIVE FoldCmds(_, _)
FoldCmds(seq, s) == IF seq = <<>> THEN s ELSE FoldCmds(Tail(seq), Apply(Head(seq), s))

OnlyLedCmds(seq) == \A i \in DOMAIN seq : seq[i] \in {"ON", "OFF", "TOGGLE"}

CountOf(seq, c) == Cardinality({i \in DOMAIN seq : seq[i] = c})

\* C1: after any sequence of ON / OFF / TOGGLE writes handled from the
\* initial state, ledState is the fold of the sequence over FALSE with
\* ON -> TRUE, OFF -> FALSE, TOGGLE -> negation.
C1_FoldOfCommands ==
  (wpc = "idle" /\ OnlyLedCmds(history)) => ledState = FoldCmds(history, FALSE)

C1_Witness ==
  /\ wpc = "idle"
  /\ history = <<"TOGGLE", "ON", "TOGGLE", "TOGGLE">>
  /\ ledState = TRUE

\* C2: whenever no onWrite is in progress the pin is HIGH exactly when
\* ledState is TRUE and LOW exactly when it is FALSE, whatever writes,
\* connection events and loop() steps came before.
C2_PinMirrorsLedState ==
  wpc = "idle" => (/\ (pin = "HIGH") = (ledState = TRUE)
                   /\ (pin = "LOW") = (ledState = FALSE))

C2_Witness ==
  /\ wpc = "idle"
  /\ history = <<"TOGGLE", "on">>
  /\ ledState
  /\ pin = "HIGH"
  /\ nEvents >= 2
  /\ pollsSinceEvent >= 1

\* C3: a STATUS write leaves ledState and the pin as they were when it
\* arrived, and produces exactly one notification, "LED_ON" when ledState
\* is TRUE and "LED_OFF" when it is FALSE.
C3_StatusIsPureRead ==
  snap.payload = "STATUS" =>
    /\ ledState = snap.led
    /\ pin = snap.pin
    /\ wpc = "idle" =>
         /\ Len(notifications) = snap.n + 1
         /\ Last(notifications) = (IF ledState THEN "LED_ON" ELSE "LED_OFF")
    /\ wpc # "idle" => Len(notifications) = snap.n

C3_Witness ==
  /\ wpc = "idle"
  /\ history = <<"TOGGLE", "STATUS", "OFF", "STATUS">>
  /\ notifications = <<"LED_ON", "LED_OFF">>

\* C4: a write of length zero leaves ledState and the pin unchanged and
\* produces no notification.
C4_EmptyWriteIgnored ==
  (snap.payload # NoWrite /\ Len(snap.payload) = 0) =>
    /\ ledState = snap.led
    /\ pin = snap.pin
    /\ Len(notifications) = snap.n

C4_Witness ==
  /\ wpc = "idle"
  /\ history = <<"ON", "STATUS", "">>
  /\ ledState
  /\ notifications = <<"LED_ON">>

\* C5: a non-empty write that is not exactly ON, OFF, TOGGLE or STATUS
\* (a case variant, a payload with a trailing character, a prefix) leaves
\* ledState and the pin unchanged and produces no notification.
C5_UnrecognizedWriteIgnored ==
  (snap.payload \in Payloads /\ Len(snap.payload) > 0
     /\ snap.payload \notin {"ON", "OFF", "TOGGLE", "STATUS"}) =>
    /\ ledState = snap.led
    /\ pin = snap.pin
    /\ Len(notifications) = snap.n

C5_Witness ==
  /\ wpc = "idle"
  /\ history = <<"on", "ON ", "TOGG">>
  /\ ~ledState
  /\ pin = "LOW"
  /\ notifications = <<>>

DisconnectBranch == <<"observe", "delay500", "advertise", "sync">>

\* C6: an iteration of loop() that sees deviceConnected false and
\* oldDeviceConnected true issues the advertising request, only after the
\* 500 ms delay has completed, and assigns oldDeviceConnected only after
\* the request.
C6_DelayThenAdvertiseThenSync ==
  /\ iterLog = SubSeq(DisconnectBranch, 1, Len(iterLog))
  /\ (lpc \in {"l123", "l125", "l128"} /\ iterLog # <<>>) => iterLog = DisconnectBranch
  /\ lpc = "l116" => iterLog = <<"observe">>
  /\ lpc = "l117" => iterLog = <<"observe", "delay500">>
  /\ lpc = "l119" => iterLog = <<"observe", "delay500", "advertise">>

C6_Witness ==
  /\ lpc = "l128"
  /\ iterLog = DisconnectBranch
  /\ advertising
  /\ ~deviceConnected
  /\ ~oldDeviceConnected
  /\ advSinceEvent = 1

\* C7: after every on-disconnect event loop() eventually issues an
\* advertising request, under any interleaving of the callbacks with loop().
C7_DisconnectLeadsToAdvertise == pendingDisc ~> ~pendingDisc

C9_NotificationsCountStatus ==
  /\ wpc = "idle" => Len(notifications) = CountOf(history, "STATUS")
  /\ snap.payload \in {"ON", "OFF", "TOGGLE"} => Len(notifications) = snap.n

C9_Witness ==
  /\ wpc = "idle"
  /\ history = <<"ON", "STATUS", "TOGGLE", "STATUS">>
  /\ Len(notifications) = 2

\* = "STATUS" has been written, and its handler has reached setValue
StatusStored ==
  \/ CountOf(history, "STATUS") > 0
  \/ snap.payload = "STATUS" /\ wpc = "l66"

\* C10 as stated: the characteristic reads "Hello World" until the first
\* STATUS is handled; other writes before it do not change what is read.
C10_HelloWorldUntilStatus == ~StatusStored => charValue = "Hello World"

\* C10 amended: the characteristic reads "Hello World" until the first
\* write of any payload; from then on it reads the payload last written,
\* except that the STATUS handler replaces it by the status string.
C10_HelloWorldUntilFirstWrite ==
  /\ snap.payload = NoWrite => charValue = "Hello World"
  /\ (snap.payload # NoWrite /\ ~(snap.payload = "STATUS" /\ wpc \in {"l66", "idle"}))
       => charValue = snap.payload
  /\ (snap.payload = "STATUS" /\ wpc \in {"l66", "idle"})
       => charValue = (IF ledState THEN "LED_ON" ELSE "LED_OFF")

C10_Witness ==
  /\ wpc = "idle"
  /\ history = <<"ON">>
  /\ charValue = "ON"

\* C11: on STATUS the status string is stored in the characteristic before
\* notify() is called, the notification carries the stored value, and once
\* the handler has returned the characteristic reads "LED_ON" / "LED_OFF"
\* according to ledState.
C11_StoreThenNotify ==
  snap.payload = "STATUS" =>
    /\ wpc = "l66" =>
         /\ charValue \in {"LED_ON", "LED_OFF"}
         /\ (charValue = "LED_ON") = ledState
         /\ Len(notifications) = snap.n
    /\ wpc = "idle" =>
         /\ Len(notifications) = snap.n + 1
         /\ Last(notifications) = charValue
         /\ charValue \in {"LED_ON", "LED_OFF"}
         /\ (charValue = "LED_ON") = ledState
    /\ wpc \in {"l37", "l39", "l64"} =>
         /\ charValue = "STATUS"
         /\ Len(notifications) = snap.n

C11_Witness ==
  /\ wpc = "idle"
  /\ history = <<"ON", "STATUS", "TOGGLE", "STATUS">>
  /\ charValue = "LED_OFF"
  /\ notifications = <<"LED_ON", "LED_OFF">>

\* a step of loop() outside the disconnect branch: the line-115 test that
\* fails, the line-123 test, line 125, line 128
QuietLoopStep ==
  /\ lpc' # lpc
  /\ lpc \in {"l123", "l125", "l128"} \/ (lpc = "l115" /\ lpc' = "l123")

\* an advertising request is being issued
AdvertiseStep == (advertising' /\ ~advertising) \/ advSinceEvent' > advSinceEvent

\* what C12 says of loop(), with the value line 125 leaves in oldDeviceConnected
C12_Body(recorded) ==
  /\ QuietLoopStep =>
       /\ UNCHANGED <<advertising, advSinceEvent, notifications, ledState, pin,
                      charValue, deviceConnected>>
       /\ lpc # "l125" => UNCHANGED oldDeviceConnected
       /\ lpc = "l125" => oldDeviceConnected' = recorded
  /\ (lpc = "l123" /\ lpc' # lpc) =>
       ((lpc' = "l125") = (deviceConnected /\ ~oldDeviceConnected))
  /\ AdvertiseStep => (lpc = "l117" /\ Head(iterLog) = "observe")

\* C12 as stated: an iteration that sees deviceConnected true and
\* oldDeviceConnected false only sets oldDeviceConnected to true, one that
\* sees no change does nothing; an advertising request is issued only by
\* an iteration that read deviceConnected false and oldDeviceConnected true.
C12_ConnectBranchSetsTrue == [][C12_Body(TRUE)]_vars

\* C12 amended: line 125 assigns the value deviceConnected has when line
\* 125 runs (false when an on-disconnect arrived after the test of line
\* 123); the rest as stated.
C12_ConnectBranchOnlySyncs == [][C12_Body(deviceConnected)]_vars

C12_Witness ==
  /\ lpc = "l128"
  /\ nEvents = 1
  /\ pollsSinceEvent = 1
  /\ deviceConnected
  /\ oldDeviceConnected
  /\ iterLog = <<>>
  /\ ~advertising
  /\ advSinceEvent = 0

\* C13: on-connect always leaves deviceConnected true and on-disconnect
\* always leaves it false; an event of the same kind as the one before it
\* changes neither flag; no event writes oldDeviceConnected, which only
\* lines 119 and 125 of loop() write.
C13_EventsSetFlagOnly ==
  [][ /\ lastEvent'.kind = "connect" => deviceConnected'
      /\ lastEvent'.kind = "disconnect" => ~deviceConnected'
      /\ nEvents' # nEvents =>
           /\ UNCHANGED oldDeviceConnected
           /\ lastEvent'.repeated => UNCHANGED deviceConnected
      /\ oldDeviceConnected' # oldDeviceConnected =>
           (lpc \in {"l119", "l125"} /\ lpc' # lpc /\ nEvents' = nEvents)
      /\ deviceConnected' # deviceConnected => (nEvents' # nEvents /\ lpc' = lpc)
    ]_vars

C13_Witness ==
  /\ lastEvent = [kind |-> "disconnect", repeated |-> TRUE]
  /\ ~deviceConnected
  /\ oldDeviceConnected
  /\ nEvents = 3

\* a step of onWrite at one of the lines that write the pin or ledState
LedWriteStep ==
  /\ wpc \in {"l48", "l49", "l53", "l54", "l58", "l59"}
  /\ wpc' # wpc
  /\ lpc' = lpc
  /\ nEvents' = nEvents

\* C14: ledState and the pin are changed only by onWrite; connection events
\* and every step of loop() leave both as they are, so once the handlers
\* have returned ledState is the fold of the writes alone and that is what
\* STATUS reports, whatever events and loop() steps came in between.
C14_LedChangedOnlyByWrites ==
  [][ /\ (ledState' # ledState \/ pin' # pin) => LedWriteStep
      /\ (lpc' # lpc \/ nEvents' # nEvents) => UNCHANGED <<ledState, pin>>
      /\ wpc' = "idle" => ledState' = FoldCmds(history', FALSE)
      /\ (wpc' = "idle" /\ snap'.payload = "STATUS") =>
           (Last(notifications') = "LED_ON") = FoldCmds(history', FALSE)
    ]_vars

\* ON was handled before any connection event; a disconnect and a connect
\* later (no event is delivered while onWrite runs) STATUS is being
\* handled and has stored "LED_ON"
C14_Witness ==
  /\ wpc = "l66"
  /\ history = <<"ON">>
  /\ ledSetAt = 0
  /\ snap.payload = "STATUS"
  /\ nEvents >= 3
  /\ lastEvent = [kind |-> "connect", repeated |-> FALSE]
  /\ deviceConnected
  /\ ledState
  /\ pin = "HIGH"
  /\ charValue = "LED_ON"

\* C15: once connection events have stopped (at most MaxEvents are
\* delivered) and loop() keeps running, oldDeviceConnected eventually
\* equals deviceConnected and stays equal, wherever in loop() the events
\* arrived.
C15_FlagsConverge == <>[](oldDeviceConnected = deviceConnected)

\* the last event, a disconnect, arrived after loop() had read the
\* connection (at line 115 or 123) and before it had recorded it; the
\* iteration has ended with the flags equal
C15_Witness ==
  /\ nEvents = MaxEvents
  /\ lastEvent.kind = "disconnect"
  /\ connSeen
  /\ pollsSinceEvent = 0
  /\ lpc = "l128"
  /\ ~deviceConnected
  /\ ~oldDeviceConnected

\* C16: with on-connect delivered only while the device advertises, and
\* advertising stopped by a connection and restarted by loop() alone, a
\* disconnected device that is not advertising gets an advertising
\* request from loop() eventually.
C16_NeverUndiscoverable == (~deviceConnected /\ ~advertising) ~> advertising

====
